---- MODULE Spec2Model ----
(***************************************************************************)
(* Text-to-SQL chatbot: the Query Service (src/backend/main.py) and the    *)
(* Chat Client (src/frontend/app.py).                                      *)
(*                                                                         *)
(* Text is a sequence of characters; a character is a one-character        *)
(* string, except the two characters the lexer cannot carry inside a       *)
(* string literal, which are named: Backtick (U+0060) and CrossMark        *)
(* (U+274C).  Python's None, where a text may stand, is the value None.    *)
(***************************************************************************)
EXTENDS Integers, Sequences, FiniteSets, TLC

VARIABLES
    \* clean_sql_query applied to a raw model output, and to its own output
    sql_response, cleaned,
    \* format_sql_result applied to an execution result and a query
    fmt_result, fmt_query, fmt_out,
    \* Query Service: the module globals of main.py (a handle is the serial
    \* number of the construction that made it, 0 is None), the number of successful
    \* constructions of each, the environment, the server's life cycle, the
    \* requests accepted and not yet handled, the locals of the last run of
    \* process_query and the HTTP response it produced
    llm, db, sql_chain, built, api_key, lifespan, phase, inflight, locals, response,
    \* Chat Client: st.session_state.messages, where the session stands, the
    \* user_input of the last script run, what requests.post did in it, what
    \* the run displayed last, which interaction started the run, the
    \* history as the run found it and whether the run was stopped for a
    \* rerun before it had added its answer
    messages, pc, user_input, post, displayed, trigger, before, aborted

cleanVars == <<sql_response, cleaned>>
fmtVars == <<fmt_result, fmt_query, fmt_out>>
serverVars ==
    <<llm, db, sql_chain, built, api_key, lifespan, phase, inflight, locals, response>>
clientVars == <<messages, pc, user_input, post, displayed, trigger, before, aborted>>
vars == <<cleanVars, fmtVars, serverVars, clientVars>>

\* A value that is no text: its element is not a character
None == <<"None">>
Backtick == "U+0060"
CrossMark == "U+274C"

(***************************************************************************)
(* Bounds of the model.                                                    *)
(***************************************************************************)
MaxTokens == 3
MaxInFlight == 2
MaxExchanges == 2

(***************************************************************************)
(* Python str and re primitives used by the source.                        *)
(***************************************************************************)
\* str.isspace / the regex class \s, on the characters of the model
IsSpace(c) == c \in {" ", "\n", "\t", "\r"}

RECURSIVE LStrip(_)
LStrip(s) == IF s = <<>> \/ ~IsSpace(Head(s)) THEN s ELSE LStrip(Tail(s))

RECURSIVE RStrip(_)
RStrip(s) ==
    IF s = <<>> \/ ~IsSpace(s[Len(s)]) THEN s ELSE RStrip(SubSeq(s, 1, Len(s) - 1))

\* str.strip()
Strip(s) == RStrip(LStrip(s))

StartsWith(s, p) == Len(s) >= Len(p) /\ SubSeq(s, 1, Len(p)) = p

Drop(s, n) == SubSeq(s, n + 1, Len(s))

\* x in s, for a character x
HasChar(s, x) == \E i \in 1..Len(s) : s[i] = x

\* p in s, for texts (substring test)
Contains(s, p) == \E i \in 0..(Len(s) - Len(p)) : SubSeq(s, i + 1, i + Len(p)) = p

\* Case folding of re.IGNORECASE and str.upper, on the letters the model's
\* inputs are made of; every other character of the model is caseless
ToLower(c) ==
    CASE c = "S" -> "s" [] c = "Q" -> "q" [] c = "L" -> "l" [] c = "U" -> "u"
      [] c = "E" -> "e" [] c = "R" -> "r" [] c = "Y" -> "y" [] c = "C" -> "c"
      [] c = "O" -> "o" [] c = "N" -> "n" [] c = "T" -> "t" [] c = "X" -> "x"
      [] OTHER -> c

ToUpper(c) ==
    CASE c = "s" -> "S" [] c = "q" -> "Q" [] c = "l" -> "L" [] c = "u" -> "U"
      [] c = "e" -> "E" [] c = "r" -> "R" [] c = "y" -> "Y" [] c = "c" -> "C"
      [] c = "o" -> "O" [] c = "n" -> "N" [] c = "t" -> "T" [] c = "x" -> "X"
      [] OTHER -> c

\* str.upper()
Upper(s) == [i \in 1..Len(s) |-> ToUpper(s[i])]

\* p, a lower-case literal, matches at the start of s under re.IGNORECASE
StartsWithIgnoreCase(s, p) ==
    Len(s) >= Len(p) /\ \A i \in 1..Len(p) : ToLower(s[i]) = p[i]

(***************************************************************************)
(* clean_sql_query (src/backend/main.py:153-169).                          *)
(***************************************************************************)
FenceSql == <<Backtick, Backtick, Backtick, "s", "q", "l">>
Fence == <<Backtick, Backtick, Backtick>>

\* re.sub(pat + r'\n?', '', s) for a literal pat: every non-overlapping match,
\* leftmost first, with the newline that follows it if there is one, removed
RECURSIVE SubFence(_, _)
SubFence(pat, s) ==
    IF s = <<>> THEN <<>>
    ELSE IF StartsWith(s, pat)
         THEN LET rest == Drop(s, Len(pat))
              IN SubFence(pat, IF rest # <<>> /\ Head(rest) = "\n" THEN Tail(rest) ELSE rest)
         ELSE <<Head(s)>> \o SubFence(pat, Tail(s))

LabelSqlQuery == <<"s", "q", "l", " ", "q", "u", "e", "r", "y", ":">>
LabelQuery == <<"q", "u", "e", "r", "y", ":">>
LabelSql == <<"s", "q", "l", ":">>

\* The length of the match of (SQL Query:|Query:|SQL:) at the start of s, the
\* alternatives tried in the order written; 0 when none matches
LabelLen(s) ==
    IF StartsWithIgnoreCase(s, LabelSqlQuery) THEN Len(LabelSqlQuery)
    ELSE IF StartsWithIgnoreCase(s, LabelQuery) THEN Len(LabelQuery)
    ELSE IF StartsWithIgnoreCase(s, LabelSql) THEN Len(LabelSql)
    ELSE 0

\* re.sub(r'^(SQL Query:|Query:|SQL:)\s*', '', s, flags=re.IGNORECASE)
RemoveLabel(s) == IF LabelLen(s) = 0 THEN s ELSE LStrip(Drop(s, LabelLen(s)))

\* s.split(';')[0]
RECURSIVE BeforeSemicolon(_)
BeforeSemicolon(s) ==
    IF s = <<>> \/ Head(s) = ";" THEN <<>> ELSE <<Head(s)>> \o BeforeSemicolon(Tail(s))

\* Truncate with the terminator not appended again
Truncate_NoTerminator(s) == IF HasChar(s, ";") THEN BeforeSemicolon(s) ELSE s

\* if ';' in sql: sql = sql.split(';')[0] + ';'
Truncate(s) == IF HasChar(s, ";") THEN BeforeSemicolon(s) \o <<";">> ELSE s

\* AfterFences with line 160 left out: only the tagged fence is removed
AfterFences_TaggedOnly(raw) == SubFence(FenceSql, Strip(raw))

\* The text after lines 156-160: stripped, fence markers removed
AfterFences(raw) == SubFence(Fence, SubFence(FenceSql, Strip(raw)))

\* The text after line 163: the leading label removed
AfterLabel(raw) == RemoveLabel(AfterFences(raw))

clean_sql_query(raw) == Strip(Truncate(AfterLabel(raw)))

(***************************************************************************)
(* format_sql_result (src/backend/main.py:179-189).                        *)
(***************************************************************************)
NoResultsMessage ==
    <<"N", "o", " ", "r", "e", "s", "u", "l", "t", "s", " ", "f", "o", "u", "n", "d",
      " ", "f", "o", "r", " ", "y", "o", "u", "r", " ", "q", "u", "e", "r", "y", ".">>

ResultIsPrefix ==
    <<"T", "h", "e", " ", "r", "e", "s", "u", "l", "t", " ", "i", "s", ":", " ">>

HereAreResultsPrefix ==
    <<"H", "e", "r", "e", " ", "a", "r", "e", " ", "t", "h", "e", " ", "r", "e", "s",
      "u", "l", "t", "s", ":", "\n", "\n">>

COUNT == <<"C", "O", "U", "N", "T">>

\* format_sql_result with the test of line 185 made on the query as written
format_sql_result_CaseSensitive(result, question, query) ==
    IF result = None \/ result = <<>> \/ Strip(result) = <<>>
    THEN NoResultsMessage
    ELSE IF Contains(query, COUNT)
         THEN ResultIsPrefix \o result
         ELSE HereAreResultsPrefix \o result

format_sql_result(result, question, query) ==
    IF result = None \/ result = <<>> \/ Strip(result) = <<>>
    THEN NoResultsMessage
    ELSE IF Contains(Upper(query), COUNT)
         THEN ResultIsPrefix \o result
         ELSE HereAreResultsPrefix \o result

(***************************************************************************)
(* The lazily initialised globals (src/backend/main.py:34-60, 108-151).    *)
(* Each function takes the globals g and returns the globals after the     *)
(* call, the value returned and whether the call raised.                   *)
(***************************************************************************)
Globals == [llm |-> llm, db |-> db, sql_chain |-> sql_chain, built |-> built]

Returned(g, value) == [g |-> g, ret |-> value, raised |-> FALSE]

Raised(g) == [g |-> g, ret |-> 0, raised |-> TRUE]

\* init_llm; key: GOOGLE_API_KEY is set
init_llm(g, key) ==
    IF g.llm = 0
    THEN IF ~key
         THEN Raised(g)
         ELSE LET h == g.built.llm + 1
              IN  Returned([g EXCEPT !.llm = h, !.built.llm = h], h)
    ELSE Returned(g, g.llm)

\* init_database with the test of line 57 left out: a handle is made on every call
init_database_NoGuard(g, opens) ==
    IF ~opens
    THEN Raised(g)
    ELSE LET h == g.built.db + 1
         IN  Returned([g EXCEPT !.db = h, !.built.db = h], h)

\* init_database; opens: SQLDatabase.from_uri succeeds
init_database(g, opens) ==
    IF g.db = 0
    THEN IF ~opens
         THEN Raised(g)
         ELSE LET h == g.built.db + 1
              IN  Returned([g EXCEPT !.db = h, !.built.db = h], h)
    ELSE Returned(g, g.db)

create_sql_chain(g, key) ==
    IF g.sql_chain = 0
    THEN LET r == init_llm(g, key)
         IN  IF r.raised
             THEN Raised(r.g)
             ELSE LET h == r.g.built.sql_chain + 1
                  IN  Returned([r.g EXCEPT !.sql_chain = h, !.built.sql_chain = h], h)
    ELSE Returned(g, g.sql_chain)

(***************************************************************************)
(* execute_sql_safely and the responses of process_query                   *)
(* (src/backend/main.py:171-177, 216-251).                                 *)
(***************************************************************************)
SqlExecutionErrorPrefix ==
    <<"S", "Q", "L", " ", "e", "x", "e", "c", "u", "t", "i", "o", "n", " ", "e", "r",
      "r", "o", "r", ":", " ">>

\* What db.run(query) does: it returns the rendered rows or raises an
\* exception e; text is the rows, or str(e)
DbReturns(text) == [ran |-> TRUE, raised |-> FALSE, text |-> text]

DbRaises(text) == [ran |-> TRUE, raised |-> TRUE, text |-> text]

\* execute_sql_safely: the pair (result, error)
execute_sql_safely(run) ==
    IF run.raised THEN <<None, run.text>> ELSE <<run.text, None>>

QueryResponse(success, result, sql_query, error) ==
    [status |-> 200, success |-> success, result |-> result,
     sql_query |-> sql_query, error |-> error]

\* HTTPException(status_code=500, ...)
InternalServerError == [status |-> 500]

\* Lines 231-245 with error= left out of the failure response
Respond_NoErrorField(question, cleaned_sql, result, error) ==
    IF error # None /\ error # <<>>
    THEN QueryResponse(FALSE, None, cleaned_sql, None)
    ELSE QueryResponse(TRUE, format_sql_result(result, question, cleaned_sql),
                       cleaned_sql, None)

\* Lines 231-245: "if error:" is true of a non-empty error text
Respond(question, cleaned_sql, result, error) ==
    IF error # None /\ error # <<>>
    THEN QueryResponse(FALSE, None, cleaned_sql, SqlExecutionErrorPrefix \o error)
    ELSE QueryResponse(TRUE, format_sql_result(result, question, cleaned_sql),
                       cleaned_sql, None)

(***************************************************************************)
(* The Chat Client (src/frontend/app.py).                                  *)
(***************************************************************************)
RedCircle == "U+1F534"

BackendErrorPrefix ==
    <<"B", "a", "c", "k", "e", "n", "d", " ", "e", "r", "r", "o", "r", ":", " ">>

ConnectionErrorPrefix ==
    <<"C", "o", "n", "n", "e", "c", "t", "i", "o", "n", " ", "e", "r", "r", "o", "r",
      ":", " ">>

UnexpectedErrorPrefix ==
    <<"U", "n", "e", "x", "p", "e", "c", "t", "e", "d", " ", "e", "r", "r", "o", "r",
      ":", " ">>

BackendNotAvailable ==
    <<RedCircle, " ", "B", "a", "c", "k", "e", "n", "d", " ", "s", "e", "r", "v", "i",
      "c", "e", " ", "i", "s", " ", "n", "o", "t", " ", "a", "v", "a", "i", "l", "a",
      "b", "l", "e", ".", " ", "P", "l", "e", "a", "s", "e", " ", "c", "h", "e", "c",
      "k", " ", "y", "o", "u", "r", " ", "b", "a", "c", "k", "e", "n", "d", " ", "c",
      "o", "n", "n", "e", "c", "t", "i", "o", "n", ".">>

StatusOk == <<"2", "0", "0">>

\* What requests.post did: it returned a response, or raised
PostReturns(status_code, text, json) ==
    [kind |-> "response", status_code |-> status_code, text |-> text, json |-> json]

PostRaisesRequestException(message) == [kind |-> "RequestException", message |-> message]

PostRaisesException(message) == [kind |-> "Exception", message |-> message]

\* query_backend with the clause of lines 41-45 left out
query_backend_NoRequestExceptionClause(p) ==
    IF p.kind = "response"
    THEN IF p.status_code = StatusOk
         THEN p.json
         ELSE [success |-> FALSE,
               error |-> BackendErrorPrefix \o p.status_code \o <<" ", "-", " ">> \o p.text]
    ELSE [success |-> FALSE, error |-> UnexpectedErrorPrefix \o p.message]

\* query_backend (lines 25-50), given what requests.post did
query_backend(p) ==
    IF p.kind = "response"
    THEN IF p.status_code = StatusOk
         THEN p.json
         ELSE [success |-> FALSE,
               error |-> BackendErrorPrefix \o p.status_code \o <<" ", "-", " ">> \o p.text]
    ELSE IF p.kind = "RequestException"
    THEN [success |-> FALSE, error |-> ConnectionErrorPrefix \o p.message]
    ELSE [success |-> FALSE, error |-> UnexpectedErrorPrefix \o p.message]

\* dict.get(key, default)
Get(d, key, default) == IF key \in DOMAIN d THEN d[key] ELSE default

\* st.session_state.messages.append(item)
append(list, item) == Append(list, item)

UserMessage(content) == [role |-> "user", content |-> content]

AssistantMessage(content, sql) == [role |-> "assistant", content |-> content, sql |-> sql]

\* error_msg of line 140
ErrorMsg(reply) == <<CrossMark, " ">> \o reply.error

\* The message lines 133-137 or 144-148 add for the dict query_backend returned
AssistantTurn(reply) ==
    IF reply.success
    THEN AssistantMessage(reply.result, Get(reply, "sql_query", <<>>))
    ELSE AssistantMessage(ErrorMsg(reply), Get(reply, "sql_query", <<>>))

(***************************************************************************)
(* Raw model outputs: every concatenation of at most MaxTokens tokens.     *)
(***************************************************************************)
Tokens ==
    { Fence, <<Backtick>>, <<"s", "q", "l">>, <<"S", "Q", "L">>, <<":">>,
      <<"\n">>, <<" ">>, <<"\t">>, <<";">>, <<"x">>,
      <<"S", "Q", "L", ":">>, LabelQuery, <<"S", "Q", "L", " ", "Q", "u", "e", "r", "y", ":">> }

RECURSIVE Flatten(_)
Flatten(ts) == IF ts = <<>> THEN <<>> ELSE Head(ts) \o Flatten(Tail(ts))

RawOutputs == UNION { { Flatten(ts) : ts \in [1..n -> Tokens] } : n \in 0..MaxTokens }

\* db.run was not called
NotRun == [ran |-> FALSE, raised |-> FALSE, text |-> None]

\* No request was handled yet
NoLocals ==
    [question |-> None, db |-> 0, chain |-> 0, raw_sql |-> None, cleaned_sql |-> None,
     run |-> NotRun, result |-> None, error |-> None, reused |-> FALSE]

NoResponse == [status |-> 0]

NoPost == [kind |-> "none"]

NothingDisplayed == [call |-> "none", text |-> None]

ClientIdle ==
    /\ messages = <<>> /\ pc = "idle" /\ user_input = None /\ post = NoPost
    /\ displayed = NothingDisplayed /\ trigger = "none" /\ before = <<>>
    /\ aborted = FALSE

FormatIdle == fmt_result = None /\ fmt_query = <<>> /\ fmt_out = None

ServerIdle ==
    /\ llm = 0 /\ db = 0 /\ sql_chain = 0
    /\ built = [llm |-> 0, db |-> 0, sql_chain |-> 0]
    /\ api_key = TRUE /\ lifespan = TRUE /\ phase = "booting"
    /\ inflight = <<>> /\ locals = NoLocals /\ response = NoResponse

InitClean ==
    /\ sql_response \in RawOutputs
    /\ cleaned = <<>>
    /\ FormatIdle
    /\ ServerIdle
    /\ ClientIdle

\* The model's output is cleaned (process_query, line 226)
Clean ==
    /\ cleaned = <<>>
    /\ cleaned' = <<clean_sql_query(sql_response)>>
    /\ UNCHANGED <<sql_response, fmtVars, serverVars, clientVars>>

\* A cleaned text is cleaned again
CleanAgain ==
    /\ Len(cleaned) \in {1, 2}
    /\ cleaned' = Append(cleaned, clean_sql_query(cleaned[Len(cleaned)]))
    /\ UNCHANGED <<sql_response, fmtVars, serverVars, clientVars>>

NextClean == Clean \/ CleanAgain

SpecClean == InitClean /\ [][NextClean]_vars

(***************************************************************************)
(* Inputs of format_sql_result: an execution result, as db.run renders it  *)
(* (None when the execution raised), and a query of at most MaxTokens      *)
(* tokens.                                                                 *)
(***************************************************************************)
Results == { None, <<>>, <<" ">>, <<"\n", " ">>, <<"5", "9">>, <<" ", "x">> }

QueryTokens ==
    { <<"c", "o", "u", "n", "t">>, COUNT, <<"C", "o", "u", "n", "T">>, <<"c">>,
      <<"o", "u", "n", "t">>, <<" ">>, <<"x">>, <<";">> }

Queries == UNION { { Flatten(ts) : ts \in [1..n -> QueryTokens] } : n \in 0..MaxTokens }

Questions == { <<"x">>, <<"c", "o", "u", "n", "t">> }

CleanIdle == sql_response = <<>> /\ cleaned = <<>>

InitFormat ==
    /\ fmt_result \in Results
    /\ fmt_query \in Queries
    /\ fmt_out = None
    /\ CleanIdle
    /\ ServerIdle
    /\ ClientIdle

\* An execution result is formatted (process_query, line 239)
Format ==
    /\ fmt_out = None
    /\ \E question \in Questions :
           fmt_out' = format_sql_result(fmt_result, question, fmt_query)
    /\ UNCHANGED <<fmt_result, fmt_query, cleanVars, serverVars, clientVars>>

NextFormat == Format

SpecFormat == InitFormat /\ [][NextFormat]_vars

(***************************************************************************)
(* The Query Service process.  Its handlers are coroutines that never      *)
(* await: the event loop runs the startup event, and then each accepted    *)
(* request, to completion, one at a time.                                  *)
(***************************************************************************)
ServerQuestions == { <<"x">>, <<"c", "o", "u", "n", "t">> }

\* chain.invoke: the model's raw output, or an exception
ModelRaises == <<"raises">>

ModelOutputs ==
    { <<"x">>,
      <<"c", "o", "u", "n", "t", ";">>,
      FenceSql \o <<"\n", "x", ";", "\n">> \o Fence,
      <<"S", "Q", "L", ":", " ", "x", ";", " ", "x">> }

ErrorTexts == { <<>>, <<"n", "o", " ", "s", "u", "c", "h", " ", "c", "o", "l", "u", "m", "n">> }

DbOutcomes ==
    { DbReturns(t) : t \in Results \ {None} } \cup { DbRaises(t) : t \in ErrorTexts }

InitServer ==
    /\ llm = 0 /\ db = 0 /\ sql_chain = 0
    /\ built = [llm |-> 0, db |-> 0, sql_chain |-> 0]
    /\ api_key \in BOOLEAN
    /\ lifespan \in BOOLEAN
    /\ phase = "booting"
    /\ inflight = <<>>
    /\ locals = NoLocals
    /\ response = NoResponse
    /\ CleanIdle
    /\ FormatIdle
    /\ ClientIdle

SetGlobals(g) ==
    /\ llm' = g.llm
    /\ db' = g.db
    /\ sql_chain' = g.sql_chain
    /\ built' = g.built

\* startup_event (lines 191-201): an exception is raised again and the
\* server exits without serving
Startup ==
    /\ phase = "booting"
    /\ lifespan
    /\ \E opens \in BOOLEAN :
           LET r1 == init_llm(Globals, api_key)
               r2 == init_database(r1.g, opens)
               r3 == create_sql_chain(r2.g, api_key)
               end == IF r1.raised THEN r1 ELSE IF r2.raised THEN r2 ELSE r3
           IN  /\ SetGlobals(end.g)
               /\ phase' = IF end.raised THEN "exited" ELSE "serving"
    /\ UNCHANGED <<api_key, lifespan, inflight, locals, response, cleanVars, fmtVars, clientVars>>

\* The application is served without its startup event (lifespan off, or
\* mounted under another application)
ServeWithoutStartup ==
    /\ phase = "booting"
    /\ ~lifespan
    /\ phase' = "serving"
    /\ UNCHANGED <<llm, db, sql_chain, built, api_key, lifespan, inflight, locals,
                   response, cleanVars, fmtVars, clientVars>>

\* A POST /query is accepted and waits for the event loop
Receive ==
    /\ phase = "serving"
    /\ Len(inflight) < MaxInFlight
    /\ \E question \in ServerQuestions : inflight' = Append(inflight, question)
    /\ UNCHANGED <<llm, db, sql_chain, built, api_key, lifespan, phase, locals,
                   response, cleanVars, fmtVars, clientVars>>

Locals(question, d, chain, raw_sql, cleaned_sql, run, result, error) ==
    [question |-> question, db |-> d, chain |-> chain, raw_sql |-> raw_sql,
     cleaned_sql |-> cleaned_sql, run |-> run, result |-> result, error |-> error,
     reused |-> db # 0 /\ sql_chain # 0]

\* process_query (lines 216-251), run to completion on the oldest request
ProcessQuery ==
    /\ phase = "serving"
    /\ inflight # <<>>
    /\ \E opens \in BOOLEAN, model \in ModelOutputs \cup {ModelRaises}, run \in DbOutcomes :
           LET question == Head(inflight)
               r1 == init_database(Globals, opens)
               r2 == create_sql_chain(r1.g, api_key)
               cleaned_sql == clean_sql_query(model)
               pair == execute_sql_safely(run)
           IN  IF r1.raised
               THEN /\ SetGlobals(r1.g)
                    /\ locals' = Locals(question, 0, 0, None, None, NotRun, None, None)
                    /\ response' = InternalServerError
               ELSE IF r2.raised
               THEN /\ SetGlobals(r2.g)
                    /\ locals' = Locals(question, r1.ret, 0, None, None, NotRun, None, None)
                    /\ response' = InternalServerError
               ELSE IF model = ModelRaises
               THEN /\ SetGlobals(r2.g)
                    /\ locals' = Locals(question, r1.ret, r2.ret, None, None, NotRun, None, None)
                    /\ response' = InternalServerError
               ELSE /\ SetGlobals(r2.g)
                    /\ locals' = Locals(question, r1.ret, r2.ret, model, cleaned_sql, run,
                                        pair[1], pair[2])
                    /\ response' = Respond(question, cleaned_sql, pair[1], pair[2])
    /\ inflight' = Tail(inflight)
    /\ UNCHANGED <<api_key, lifespan, phase, cleanVars, fmtVars, clientVars>>

Next == Startup \/ ServeWithoutStartup \/ Receive \/ ProcessQuery

Spec == InitServer /\ [][Next]_vars

(***************************************************************************)
(* The Chat Client session.  Every interaction reruns main(); a run that   *)
(* takes a question is two steps, before and after the round trip to the   *)
(* Query Service.  An interaction that arrives while a run is under way    *)
(* stops that run at its next st.* call and starts the next one.           *)
(***************************************************************************)
TypedQuestions == { <<"x">> }

ExampleQuestions ==
    { <<"W", "h", "i", "c", "h", " ", "c", "u", "s", "t", "o", "m", "e", "r", "s", " ",
        "a", "r", "e", " ", "f", "r", "o", "m", " ", "B", "r", "a", "z", "i", "l", "?">> }

\* The bodies the Query Service answers a POST /query with
Bodies ==
    { [success |-> TRUE, result |-> ResultIsPrefix \o <<"5", "9">>,
       sql_query |-> <<"c", "o", "u", "n", "t", ";">>, error |-> None],
      [success |-> FALSE, result |-> None, sql_query |-> <<"x", ";">>,
       error |-> SqlExecutionErrorPrefix \o <<"n", "o">>] }

PostOutcomes ==
    { PostReturns(StatusOk, <<>>, b) : b \in Bodies }
        \cup { PostReturns(<<"5", "0", "0">>, <<"d", "o", "w", "n">>, None),
               PostRaisesRequestException(<<"t", "i", "m", "e", "d", " ", "o", "u", "t">>),
               PostRaisesException(<<"b", "a", "d">>) }

InitClient ==
    /\ messages = <<>>
    /\ pc = "idle"
    /\ user_input = None
    /\ post = NoPost
    /\ displayed = NothingDisplayed
    /\ trigger = "none"
    /\ before = <<>>
    /\ aborted = FALSE
    /\ CleanIdle
    /\ FormatIdle
    /\ ServerIdle

\* Lines 61-65: the health check fails and the run ends there, whatever the
\* interaction that started it
Unavailable ==
    /\ pc = "idle"
    /\ trigger' = "unavailable"
    /\ displayed' = [call |-> "error", text |-> BackendNotAvailable]
    /\ before' = messages
    /\ user_input' = None
    /\ aborted' = FALSE
    /\ UNCHANGED <<messages, pc, post, cleanVars, fmtVars, serverVars>>

\* Lines 110-116: the run has a question; it is added to the history and shown
Submit(question) ==
    /\ pc = "idle"
    /\ Len(messages) < MaxExchanges + MaxExchanges
    /\ before' = messages
    /\ user_input' = question
    /\ messages' = append(messages, UserMessage(question))
    /\ displayed' = [call |-> "write", text |-> question]
    /\ trigger' = "submit"
    /\ pc' = "awaiting"
    /\ post' = NoPost
    /\ aborted' = FALSE
    /\ UNCHANGED <<cleanVars, fmtVars, serverVars>>

\* Line 107: a question typed into the chat input
SubmitTyped == \E question \in TypedQuestions : Submit(question)

\* Lines 86-88 and 103-105: an example button sets example_question, which the
\* same run takes as its input and deletes
ClickExample == \E eq \in ExampleQuestions : Submit(eq)

\* Lines 119-148: the round trip ends; the result or the error is shown and
\* added to the history
Reply ==
    /\ pc = "awaiting"
    /\ \E p \in PostOutcomes :
           LET reply == query_backend(p)
           IN  /\ post' = p
               /\ displayed' = IF reply.success
                               THEN [call |-> "write", text |-> reply.result]
                               ELSE [call |-> "error", text |-> ErrorMsg(reply)]
               /\ messages' = append(messages, AssistantTurn(reply))
    /\ pc' = "idle"
    /\ UNCHANGED <<user_input, trigger, before, aborted, cleanVars, fmtVars, serverVars>>

\* Lines 115-141: an interaction arrived after the question was added (line
\* 112); the run is stopped at its next st.* call, before that call shows
\* anything.  Every such call comes before the append of line 133 or 144, so
\* the run ends with the question in the history and no answer to it.
Interrupted ==
    /\ pc = "awaiting"
    /\ \* stopped at st.chat_message or st.write of lines 115-116: the
       \* question is not shown
       \/ /\ post' = NoPost
          /\ displayed' = NothingDisplayed
       \* stopped at st.chat_message or st.spinner of lines 119-120: the
       \* question is shown, no POST was made
       \/ /\ post' = NoPost
          /\ UNCHANGED displayed
       \* stopped at st.write of line 125 or st.error of line 141: the POST
       \* is over, its answer is not shown
       \/ /\ \E p \in PostOutcomes : post' = p
          /\ UNCHANGED displayed
       \* stopped at st.expander or st.code of lines 129-130, reached when
       \* the answer has a sql_query: the result is shown
       \/ \E p \in PostOutcomes :
              LET reply == query_backend(p)
                  sql_query == Get(reply, "sql_query", None)
              IN  /\ reply.success
                  /\ sql_query # None /\ sql_query # <<>>
                  /\ post' = p
                  /\ displayed' = [call |-> "write", text |-> reply.result]
    /\ aborted' = TRUE
    /\ pc' = "idle"
    /\ UNCHANGED <<messages, user_input, trigger, before, cleanVars, fmtVars, serverVars>>

\* Lines 153-155: the Clear Chat History button
ClearChat ==
    /\ pc = "idle"
    /\ before' = messages
    /\ messages' = <<>>
    /\ user_input' = None
    /\ displayed' = NothingDisplayed
    /\ trigger' = "clear"
    /\ aborted' = FALSE
    /\ UNCHANGED <<pc, post, cleanVars, fmtVars, serverVars>>

\* Lines 158-159: the Refresh Connection button
Refresh ==
    /\ pc = "idle"
    /\ before' = messages
    /\ user_input' = None
    /\ displayed' = NothingDisplayed
    /\ trigger' = "refresh"
    /\ aborted' = FALSE
    /\ UNCHANGED <<messages, pc, post, cleanVars, fmtVars, serverVars>>

NextClient ==
    Unavailable \/ SubmitTyped \/ ClickExample \/ Reply \/ Interrupted \/ ClearChat
        \/ Refresh

SpecClient == InitClient /\ [][NextClient]_vars

(***************************************************************************)
(* Claims about clean_sql_query, under SpecClean.                          *)
(***************************************************************************)
CountChar(s, x) == Cardinality({ i \in 1..Len(s) : s[i] = x })

\* C3: a raw output that contains a fence marker (three consecutive
\* backticks, tagged or not, anywhere, any number, longer runs included) is
\* cleaned to a text with no three consecutive backticks.
C3_NoFenceMarker ==
    (Len(cleaned) >= 1 /\ Contains(sql_response, Fence))
        => ~Contains(cleaned[1], Fence)

\* A run of more than three backticks was cleaned and left a backtick behind.
C3_Witness ==
    /\ Len(cleaned) >= 1
    /\ Contains(sql_response, Fence \o <<Backtick>>)
    /\ Contains(sql_response, FenceSql)
    /\ HasChar(cleaned[1], Backtick)

\* The raw output has a labeled prefix: once the earlier steps have stripped it
\* and removed its fences, it starts, after whitespace, with one of the labels.
HasLabeledPrefix(raw) == LabelLen(LStrip(AfterFences(raw))) # 0

\* C4: a raw output with a labeled prefix is cleaned to a text that does not
\* begin with a label.
C4_LabelAbsent ==
    (Len(cleaned) >= 1 /\ HasLabeledPrefix(sql_response))
        => LabelLen(cleaned[1]) = 0

\* C5: if the text after fence and label removal contains a semicolon, the
\* cleaned text is the text before the first semicolon, leading whitespace
\* stripped, followed by one semicolon, which is its only semicolon and its
\* last character; if not, the cleaned text is that text with nothing
\* appended and nothing removed but the outer whitespace line 169 strips.
C5_TruncateAtFirstSemicolon ==
    Len(cleaned) >= 1 =>
        LET mid == AfterLabel(sql_response)
            out == cleaned[1]
        IN  IF HasChar(mid, ";")
            THEN /\ \E k \in 1..Len(mid) :
                       /\ mid[k] = ";"
                       /\ \A j \in 1..(k - 1) : mid[j] # ";"
                       /\ out = LStrip(SubSeq(mid, 1, k - 1)) \o <<";">>
                 /\ CountChar(out, ";") = 1
                 /\ out[Len(out)] = ";"
            ELSE /\ out = Strip(mid)
                 /\ ~HasChar(out, ";")

\* Text after the first semicolon was discarded.
C5_Witness ==
    /\ Len(cleaned) >= 1
    /\ LET mid == AfterLabel(sql_response)
       IN  /\ CountChar(mid, ";") >= 2
           /\ mid[Len(mid)] = "x"
           /\ Len(cleaned[1]) < Len(mid)
           /\ CountChar(cleaned[1], ";") = 1

\* C6: cleaning an already-clean text twice gives what cleaning it once gives:
\* with x = cleaned[1], clean(clean(x)) = clean(x).
C6_Idempotent == Len(cleaned) = 3 => cleaned[3] = cleaned[2]

(***************************************************************************)
(* Claims about format_sql_result, under SpecFormat.                       *)
(***************************************************************************)
ResultIsLabel ==
    <<"T", "h", "e", " ", "r", "e", "s", "u", "l", "t", " ", "i", "s", ":">>

\* The query contains "count" in some letter case
MentionsCount(query) ==
    \E i \in 0..(Len(query) - 5) :
        <<ToLower(query[i + 1]), ToLower(query[i + 2]), ToLower(query[i + 3]),
          ToLower(query[i + 4]), ToLower(query[i + 5])>> = <<"c", "o", "u", "n", "t">>

\* C7 as stated: for every execution result and every query that contains
\* "count" in any letter case, the formatted output starts with
\* "The result is:".
C7_CountPrefix_Original ==
    (fmt_out # None /\ MentionsCount(fmt_query)) => StartsWith(fmt_out, ResultIsLabel)

\* C7 amended: for every execution result that is not empty and not
\* whitespace only, and every query that contains "count" in any letter
\* case, the formatted output is "The result is: " followed by the result.
C7_CountPrefix ==
    (/\ fmt_out # None
     /\ MentionsCount(fmt_query)
     /\ fmt_result # None
     /\ Strip(fmt_result) # <<>>)
        => /\ StartsWith(fmt_out, ResultIsLabel)
           /\ fmt_out = ResultIsPrefix \o fmt_result

\* A result of a query that spells count in mixed case was formatted.
C7_Witness ==
    /\ fmt_out # None
    /\ fmt_result = <<"5", "9">>
    /\ Contains(fmt_query, <<"C", "o", "u", "n", "T">>)
    /\ ~Contains(fmt_query, COUNT)
    /\ StartsWith(fmt_out, ResultIsLabel)

(***************************************************************************)
(* Claims about the Query Service, under Spec.                             *)
(***************************************************************************)
\* C1: every Query Response of POST /query has exactly one of result and
\* error set; result is set iff success is true and error is set iff success
\* is false.
C1_ResultXorError ==
    response.status = 200 =>
        /\ (response.result # None) # (response.error # None)
        /\ (response.result # None) <=> response.success
        /\ (response.error # None) <=> ~response.success

\* A failure response was produced after a success response could have been:
\* the execution raised with an error text.
C1_Witness ==
    /\ response.status = 200
    /\ ~response.success
    /\ locals.run.raised
    /\ response.error # None

\* C2: whenever db.run raises, with any message text, the response is a
\* Query Response (not an HTTP 500) with success false, sql_query the cleaned
\* statement that was executed, and error containing the error text.
C2_ExecutionErrorReported ==
    (locals.run.ran /\ locals.run.raised) =>
        /\ response.status = 200
        /\ response.success = FALSE
        /\ response.sql_query = locals.cleaned_sql
        /\ response.error # None
        /\ Contains(response.error, locals.run.text)

\* C10: the model client, the database handle and the prompt chain are each
\* constructed at most once, and every call of init_database and
\* create_sql_chain, in the startup event and in every request, returns the
\* handle of that one construction: the globals are never replaced.
C10_ConstructedOnce ==
    /\ built.llm <= 1 /\ built.db <= 1 /\ built.sql_chain <= 1
    /\ llm = built.llm /\ db = built.db /\ sql_chain = built.sql_chain
    /\ locals.db \in {0, db}
    /\ locals.chain \in {0, sql_chain}

\* A request was served with the handles an earlier request had made on
\* first use, the startup event never having run.
C10_Witness ==
    /\ ~lifespan
    /\ locals.reused
    /\ locals.db = 1 /\ locals.chain = 1
    /\ built = [llm |-> 1, db |-> 1, sql_chain |-> 1]

(***************************************************************************)
(* Claims about the Chat Client, under SpecClient.                         *)
(***************************************************************************)
IsPrefix(s, t) == Len(s) <= Len(t) /\ SubSeq(t, 1, Len(s)) = s

ConnectionErrorLabel ==
    <<"C", "o", "n", "n", "e", "c", "t", "i", "o", "n", " ", "e", "r", "r", "o", "r">>

\* The run took a question and its POST raised a connection or timeout error
ConnectionFailed == trigger = "submit" /\ pc = "idle" /\ post.kind = "RequestException"

\* C8 as stated: after a submission whose POST raised a connection or
\* timeout error, a "Connection error" message is displayed and the history
\* is the same as before the submission.
C8_HistoryUnaffected_Original ==
    ConnectionFailed =>
        /\ displayed.call = "error"
        /\ Contains(displayed.text, ConnectionErrorLabel)
        /\ messages = before

\* C8 amended: the error is caught by query_backend, which answers with a
\* failure whose error begins "Connection error".  The history before the
\* submission is kept: a run that goes on to its end displays that error and
\* leaves the earlier history followed by the question and by the error
\* message; a run stopped for a rerun before it displayed the error leaves
\* the earlier history followed by the question alone.
C8_ConnectionErrorAppended ==
    ConnectionFailed =>
        /\ ~query_backend(post).success
        /\ StartsWith(query_backend(post).error, ConnectionErrorLabel)
        /\ IF aborted
           THEN messages = before \o << UserMessage(user_input) >>
           ELSE /\ displayed.call = "error"
                /\ displayed.text = ErrorMsg(query_backend(post))
                /\ StartsWith(displayed.text, <<CrossMark, " ">> \o ConnectionErrorLabel)
                /\ messages = before \o
                       << UserMessage(user_input), AssistantMessage(displayed.text, <<>>) >>

\* A submission failed to connect after an earlier exchange and the run went
\* on to its end.
C8_Witness ==
    /\ ConnectionFailed
    /\ ~aborted
    /\ Len(before) >= 2
    /\ Len(messages) = Len(before) + 2

\* C9: every step but the clear action leaves the history as a prefix of
\* the new history, the clear action empties it, and the session goes from
\* awaiting-response to idle only in a step that appends the assistant's
\* message (the result or the error).
C9_AppendOnlyUntilClear ==
    [][ /\ ClearChat \/ IsPrefix(messages, messages')
        /\ ClearChat => messages' = <<>>
        /\ (pc = "awaiting" /\ pc' = "idle") =>
               /\ Len(messages') = Len(messages) + 1
               /\ IsPrefix(messages, messages')
               /\ messages'[Len(messages')].role = "assistant"
               /\ messages'[Len(messages')].content = displayed'.text ]_vars

====
